---- MODULE Spec2Model ----
(***************************************************************************)
(* Model of mrplants/ArXivDataLoader.                                      *)
(*                                                                         *)
(*   ArXivDataset.py   the torch Dataset: manifest parsing, the memoized   *)
(*                     __len__, get_tar_for_index and __getitem__          *)
(*   ArXiv_dataset.py  the Hugging Face builder: sort_by_date and the      *)
(*                     _generate_examples generator                        *)
(*                                                                         *)
(* Strings the code inspects (file names, yymm, numeric fields) are        *)
(* sequences of one-character strings, so that slicing, startswith,        *)
(* endswith, int() and the regular expression are computed, not assumed.   *)
(***************************************************************************)
EXTENDS Integers, Sequences, FiniteSets, TLC

VARIABLES
    now,        \* datetime.now().year
    manifest,   \* per dataset object: the attribute self.manifest
    cache,      \* the functools.lru_cache of __len__, keyed by self
    result,     \* outcome of the last call on a dataset object
    dropped,    \* history: per object, the memoized count its last reload discarded
    listing,    \* os.listdir(filepath), in the order the OS returned it
    pc,         \* position of the _generate_examples generator
    order,      \* the sequence the outer for loop iterates
    ti,         \* index into order of the current top-level archive
    members,    \* ordered_members of the open top-level archive
    mi,         \* index into members of the current inner entry
    inner,      \* inner_tar.getmembers() of the open nested archive
    ii,         \* index into inner of the current nested member
    key,        \* the local variable key
    out,        \* the records yielded so far
    visited     \* top-level archives opened so far, in order

vars == <<now, manifest, cache, result, dropped, listing, pc, order, ti, members, mi,
          inner, ii, key, out, visited>>

datasetVars == <<manifest, cache, result, dropped>>
extractVars == <<listing, pc, order, ti, members, mi, inner, ii, key, out, visited>>

(***************************************************************************)
(* Bounds of the model.                                                    *)
(***************************************************************************)
MaxFiles   == 3     \* file elements in one manifest text
MaxListing == 3     \* directory entries in one listing
YearSpan   == 1     \* calendar years the clock may advance past FirstYear

FirstYear == 2000 + 24
Years     == FirstYear .. (FirstYear + YearSpan)

(***************************************************************************)
(* Strings.                                                                *)
(***************************************************************************)
Range(s) == {s[i] : i \in 1..Len(s)}

Digits == <<"0", "1", "2", "3", "4", "5", "6", "7", "8", "9">>

IsDigit(c) == \E i \in 1..Len(Digits) : Digits[i] = c

DigitVal(c) == (CHOOSE i \in 1..Len(Digits) : Digits[i] = c) - 1

\* the characters of the model's strings, in code point order
Alphabet == <<".", "/", "0", "1", "2", "3", "4", "5", "6", "7", "8", "9",
              "X", "_", "a", "b", "c", "d", "e", "f", "g", "h", "i", "l",
              "m", "n", "o", "p", "r", "s", "t", "v", "x", "z">>

Ord(c) == CHOOSE i \in 1..Len(Alphabet) : Alphabet[i] = c

StartsWith(s, p) == Len(s) >= Len(p) /\ SubSeq(s, 1, Len(p)) = p

EndsWith(s, p) == Len(s) >= Len(p) /\ SubSeq(s, Len(s) - Len(p) + 1, Len(s)) = p

\* int(s) succeeds on a non-empty string of decimal digits
IsNumeric(s) == Len(s) > 0 /\ \A i \in 1..Len(s) : IsDigit(s[i])

RECURSIVE IntOf(_)
IntOf(s) == IF s = <<>> THEN 0
            ELSE 10 * IntOf(SubSeq(s, 1, Len(s) - 1)) + DigitVal(s[Len(s)])

\* Python's order on tuples of integers (and, through Ord, on strings)
RECURSIVE TupleLess(_, _)
TupleLess(a, b) ==
    IF b = <<>> THEN FALSE
    ELSE IF a = <<>> THEN TRUE
    ELSE IF a[1] # b[1] THEN a[1] < b[1]
    ELSE TupleLess(Tail(a), Tail(b))

TupleLeq(a, b) == ~TupleLess(b, a)

StrKey(s) == [i \in 1..Len(s) |-> Ord(s[i])]

\* sorted(s, key=...): stable, ascending; keyOf maps each element to its key
RECURSIVE Sorted(_, _)
Sorted(s, keyOf) ==
    IF s = <<>> THEN <<>>
    ELSE LET rest == Sorted(SubSeq(s, 1, Len(s) - 1), keyOf)
             x    == s[Len(s)]
             p    == Cardinality({i \in 1..Len(rest) : TupleLeq(keyOf[rest[i]], keyOf[x])})
         IN  SubSeq(rest, 1, p) \o <<x>> \o SubSeq(rest, p + 1, Len(rest))

Reversed(s) == [i \in 1..Len(s) |-> s[Len(s) + 1 - i]]

IsSortedBy(s, keyOf) ==
    \A i \in 1..(Len(s) - 1) : TupleLeq(keyOf[s[i]], keyOf[s[i + 1]])

RECURSIVE SumSeq(_)
SumSeq(s) == IF s = <<>> THEN 0 ELSE s[1] + SumSeq(Tail(s))

(***************************************************************************)
(* The corpus on disk: the directory src/ under the data directory.        *)
(* Each top-level archive lists its entries in the order the archive       *)
(* stores them; an entry ending in .gz carries a nested archive.           *)
(***************************************************************************)
ArchivePrefix == <<"a", "r", "X", "i", "v", "_", "s", "r", "c", "_">>

Chars(yymm, nnn) == ArchivePrefix \o yymm \o <<"_">> \o nnn

DotTar == <<".", "t", "a", "r">>
DotGz  == <<".", "g", "z">>
DotPdf == <<".", "p", "d", "f">>
SrcDir == <<"s", "r", "c", "/">>
MainTex == <<"m", "a", "i", "n", ".", "t", "e", "x">>
RefsBib == <<"r", "e", "f", "s", ".", "b", "i", "b">>

T9107   == Chars(<<"9", "1", "0", "7">>, <<"0", "0", "1">>) \o DotTar
T2301a  == Chars(<<"2", "3", "0", "1">>, <<"0", "0", "1">>) \o DotTar
T2301b  == Chars(<<"2", "3", "0", "1">>, <<"0", "0", "2">>) \o DotTar
T2302   == Chars(<<"2", "3", "0", "2">>, <<"0", "0", "1">>) \o DotTar
T2512   == Chars(<<"2", "5", "1", "2">>, <<"0", "0", "1">>) \o DotTar
T5002   == Chars(<<"5", "0", "0", "2">>, <<"0", "0", "1">>) \o DotTar
THidden == <<".">> \o T9107
TPart   == T9107 \o DotGz

\* a member of a nested archive
Tex(name, isfile, utf8) == [name |-> name, isfile |-> isfile, utf8 |-> utf8]

\* an entry of a top-level archive: readable is whether extractfile(member).read()
\* delivers its bytes, valid whether those bytes are a gzip-compressed archive
Entry(name, readable, valid, content) ==
    [name |-> name, readable |-> readable, valid |-> valid, content |-> content]

GoodMain == Tex(MainTex, TRUE, TRUE)
BadMain  == Tex(MainTex, TRUE, FALSE)
DirMain  == Tex(MainTex, FALSE, TRUE)
Bib      == Tex(RefsBib, TRUE, TRUE)

\* istar is whether tarfile.open accepts the file
Disk ==
    (T9107 :> [istar |-> TRUE, entries |-> <<
        Entry(<<"b">> \o DotGz, TRUE, TRUE, <<GoodMain>>),
        Entry(<<"a">> \o DotGz, TRUE, TRUE, <<Bib, GoodMain>>) >>])
 @@ (T2301a :> [istar |-> TRUE, entries |-> <<
        Entry(<<"c">> \o DotPdf, TRUE, FALSE, <<>>),
        Entry(<<"b">> \o DotGz, TRUE, TRUE, <<GoodMain, Bib>>),
        Entry(<<"a">> \o DotGz, TRUE, FALSE, <<>>) >>])
 @@ (T2301b :> [istar |-> TRUE, entries |-> <<
        Entry(<<"a">> \o DotGz, FALSE, FALSE, <<>>),
        Entry(<<"b">> \o DotGz, TRUE, TRUE, <<GoodMain>>) >>])
 @@ (T5002 :> [istar |-> TRUE, entries |-> <<
        Entry(<<"b">> \o DotGz, TRUE, TRUE, <<DirMain, Bib>>),
        Entry(<<"a">> \o DotGz, TRUE, TRUE, <<GoodMain, BadMain, Bib>>) >>])
 @@ (T2302 :> [istar |-> FALSE, entries |-> <<>>])
 @@ (THidden :> [istar |-> FALSE, entries |-> <<>>])
 @@ (TPart :> [istar |-> FALSE, entries |-> <<>>])

DirEntries == DOMAIN Disk

\* the sequences of distinct elements of S of length at most n
DistinctSeqs(S, n) ==
    {s \in UNION {[1..k -> S] : k \in 0..n} : \A i, j \in 1..Len(s) : s[i] = s[j] => i = j}

EntryByName(tar, name) == CHOOSE e \in Range(Disk[tar].entries) : e.name = name

NameKey(names) == [n \in Range(names) |-> StrKey(n)]

HasSuffix(name, suffixes) == \E x \in suffixes : EndsWith(name, x)

\* the names among entries, in their order, that end in one of suffixes
SelectNames(entries, suffixes) ==
    LET F[i \in 0..Len(entries)] ==
            IF i = 0 THEN <<>>
            ELSE IF HasSuffix(entries[i].name, suffixes) THEN Append(F[i - 1], entries[i].name)
            ELSE F[i - 1]
    IN  F[Len(entries)]

(***************************************************************************)
(* ArXivDataset.py: the manifest and its parsing.                          *)
(***************************************************************************)
Objects == {"d1"}

\* a <file> element; absent names the child elements it lacks
FileElem(tar, num_items, seq_num, yymm, absent) ==
    [filename |-> SrcDir \o tar, num_items |-> num_items, seq_num |-> seq_num,
     yymm |-> yymm, absent |-> absent]

FileElems ==
    { FileElem(T9107,  <<"2">>, <<"1">>, <<"9", "1", "0", "7">>, {}),
      FileElem(T2301a, <<"3">>, <<"1">>, <<"2", "3", "0", "1">>, {}),
      FileElem(T2301b, <<"0">>, <<"2">>, <<"2", "3", "0", "1">>, {}),
      FileElem(T2512,  <<"2">>, <<"1">>, <<"2", "5", "1", "2">>, {}),
      FileElem(T5002,  <<"x">>, <<"1">>, <<"5", "0", "0", "2">>, {}),
      FileElem(T5002,  <<>>,    <<"1">>, <<"5", "0", "0", "2">>, {"num_items"}) }

\* the manifest texts: one that is not well-formed XML, and the well-formed
\* ones listing distinct file elements in any order
ManifestTexts ==
    {[wellformed |-> FALSE, files |-> <<>>]}
    \cup {[wellformed |-> TRUE, files |-> fs] : fs \in DistinctSeqs(FileElems, MaxFiles)}

\* the exception building file_data raises, "none" when it does not
FileError(f) ==
    IF f.absent # {} THEN "AttributeError"
    ELSE IF ~IsNumeric(f.num_items) \/ ~IsNumeric(f.seq_num) THEN "ValueError"
    ELSE IF ~IsNumeric(SubSeq(f.yymm, 1, 2)) \/ ~IsNumeric(SubSeq(f.yymm, 3, Len(f.yymm)))
         THEN "ValueError"
    ELSE "none"

ValidText(text) ==
    text.wellformed /\ \A i \in 1..Len(text.files) : FileError(text.files[i]) = "none"

\* int('20'+yy if int(yy) <= datetime.now().year-2000 else '19'+yy)
PivotYear(yy, yr) ==
    IF IntOf(yy) <= yr - 2000 THEN IntOf(<<"2", "0">> \o yy) ELSE IntOf(<<"1", "9">> \o yy)

FileData(f, yr) ==
    [filename  |-> f.filename,
     num_items |-> IntOf(f.num_items),
     seq_num   |-> IntOf(f.seq_num),
     yymm      |-> f.yymm,
     year      |-> PivotYear(SubSeq(f.yymm, 1, 2), yr),
     month     |-> IntOf(SubSeq(f.yymm, 3, Len(f.yymm)))]

\* a plausible slip: ordering by the two-digit fragment instead of the year
RawKey(d) == <<IntOf(SubSeq(d.yymm, 1, 2)), d.month, d.seq_num>>

\* key=lambda x: (x['year'], x['month'], x['seq_num'])
ManifestKey(d) == <<d.year, d.month, d.seq_num>>

\* the outcome of parse_manifest_xml(xml_string) in calendar year yr
parse_manifest_xml(text, yr) ==
    IF ~text.wellformed THEN [err |-> "ParseError", files |-> <<>>]
    ELSE LET bad == {i \in 1..Len(text.files) : FileError(text.files[i]) # "none"}
         IN  IF bad # {}
             THEN [err |-> FileError(text.files[CHOOSE i \in bad : \A j \in bad : i <= j]),
                   files |-> <<>>]
             ELSE LET files_data == [i \in 1..Len(text.files) |-> FileData(text.files[i], yr)]
                  IN  [err |-> "none",
                       files |-> Sorted(files_data,
                                        [d \in Range(files_data) |-> ManifestKey(d)])]

\* whether sorting moved an entry of the text
Reordered(text, yr) ==
    /\ ValidText(text)
    /\ parse_manifest_xml(text, yr).files # [i \in 1..Len(text.files) |-> FileData(text.files[i], yr)]

\* What reading and parsing the manifest file can deliver in year yr: for
\* every manifest text, the outcome of parse_manifest_xml, whether the text
\* is invalid, and whether sorting reordered it. Computed once per year.
Loads ==
    [yr \in Years |->
        {[r |-> parse_manifest_xml(text, yr), bad |-> ~ValidText(text),
          moved |-> Reordered(text, yr)] : text \in ManifestTexts}]

(***************************************************************************)
(* ArXivDataset.py: __len__ behind functools.lru_cache.                    *)
(***************************************************************************)
NoEntry == [hit |-> FALSE, val |-> 0]

\* a plausible slip: the cache is left as it was after a reload
cache_kept(c) == c

\* self.__len__.cache_clear() empties the one cache all objects share
cache_clear(c) == [o \in Objects |-> NoEntry]

NumItems(files) == SumSeq([i \in 1..Len(files) |-> files[i].num_items])

\* len(self): the cached value if there is one, else the sum, which the
\* cache then keeps; without self.manifest the sum raises and nothing is kept
len_call(o) ==
    IF cache[o].hit THEN [err |-> "none", val |-> cache[o].val, cache |-> cache]
    ELSE IF manifest[o].st # "set" THEN [err |-> "AttributeError", val |-> 0, cache |-> cache]
    ELSE LET n == NumItems(manifest[o].files)
         IN  [err |-> "none", val |-> n,
              cache |-> [cache EXCEPT ![o] = [hit |-> TRUE, val |-> n]]]

(***************************************************************************)
(* ArXivDataset.py: get_tar_for_index and __getitem__.                     *)
(***************************************************************************)
\* a plausible slip: >= in place of >
OwnsInclusive(current_index, num_items, idx) == current_index + num_items >= idx

\* if current_index + file_data['num_items'] > idx
Owns(current_index, num_items, idx) == current_index + num_items > idx

RECURSIVE Scan(_, _, _, _)
Scan(files, idx, k, current_index) ==
    IF k > Len(files) THEN [err |-> "IndexError", tar |-> <<>>, off |-> 0]
    ELSE IF Owns(current_index, files[k].num_items, idx)
         THEN [err |-> "none", tar |-> files[k].filename, off |-> idx - current_index]
    ELSE Scan(files, idx, k + 1, current_index + files[k].num_items)

get_tar_for_index(files, idx) == Scan(files, idx, 1, 0)

\* a plausible slip: counting back from the last index instead of the length
NormalizeFromLast(n, idx) == n - 1 + idx

\* idx = len(self) + idx
Normalize(n, idx) == n + idx

\* seq[i] for a Python list
PyIndex(seq, i) ==
    IF 0 <= i /\ i < Len(seq) THEN [err |-> "none", item |-> seq[i + 1]]
    ELSE IF -Len(seq) <= i /\ i < 0 THEN [err |-> "none", item |-> seq[Len(seq) + i + 1]]
    ELSE [err |-> "IndexError", item |-> <<>>]

\* f.name.endswith('.gz') or f.name.endswith('.pdf')
ItemSuffixes == {DotGz, DotPdf}

\* the sorted .gz and .pdf member names of the archive at data_dir/path
ItemNames(tar) ==
    LET names == SelectNames(Disk[tar].entries, ItemSuffixes) IN Sorted(names, NameKey(names))

ItemNamesOf == [tar \in DirEntries |-> ItemNames(tar)]

Outcome(err, tar, off, name, c) ==
    [err |-> err, tar |-> tar, off |-> off, name |-> name, cache |-> c]

\* self[idx]: what it raises or returns, and the cache it leaves
getitem(o, idx) ==
    LET lc == IF idx < 0 THEN len_call(o) ELSE [err |-> "none", val |-> 0, cache |-> cache]
    IN  IF lc.err # "none" THEN Outcome(lc.err, <<>>, 0, <<>>, lc.cache)
        ELSE IF manifest[o].st # "set" THEN Outcome("AttributeError", <<>>, 0, <<>>, lc.cache)
        ELSE
        LET i   == IF idx < 0 THEN Normalize(lc.val, idx) ELSE idx
            loc == get_tar_for_index(manifest[o].files, i)
            tar == SubSeq(loc.tar, Len(SrcDir) + 1, Len(loc.tar))
        IN  IF loc.err # "none" THEN Outcome(loc.err, <<>>, 0, <<>>, lc.cache)
            ELSE IF ~StartsWith(loc.tar, SrcDir) \/ tar \notin DirEntries
                 THEN Outcome("FileNotFoundError", loc.tar, loc.off, <<>>, lc.cache)
            ELSE IF ~Disk[tar].istar
                 THEN Outcome("ReadError", loc.tar, loc.off, <<>>, lc.cache)
            ELSE LET m == PyIndex(ItemNamesOf[tar], loc.off)
                 IN  Outcome(m.err, loc.tar, loc.off, m.item, lc.cache)

(***************************************************************************)
(* The calls on a dataset object.                                          *)
(***************************************************************************)
\* What a call did: err is the exception it raised ("none" when it returned),
\* val the length, the offset or, for __init__, the year it ran in; bad and
\* moved describe the manifest text __init__ read.
Result(op, o, idx, err, val, tar, name, bad, moved) ==
    [op |-> op, obj |-> o, idx |-> idx, err |-> err, val |-> val, tar |-> tar,
     name |-> name, bad |-> bad, moved |-> moved]

Total(o) == IF manifest[o].st = "set" THEN NumItems(manifest[o].files) ELSE 0

\* ArXivDataset(data_dir), or __init__ run again on the object (a reload),
\* with load what the manifest file src/arXiv_src_manifest.xml delivers
Construct(o, load) ==
    LET r == load.r
    IN  /\ manifest' = [manifest EXCEPT ![o] =
                           IF r.err = "none" THEN [st |-> "set", files |-> r.files]
                           ELSE IF @.st = "new" THEN [st |-> "unset", files |-> <<>>]
                           ELSE @]
        /\ cache' = IF r.err = "none" THEN cache_clear(cache) ELSE cache
        /\ dropped' = IF r.err = "none"
                      THEN [dropped EXCEPT ![o] = IF cache[o].hit THEN cache[o].val ELSE -1]
                      ELSE dropped
        /\ result' = Result("init", o, 0, "none", now, <<>>, <<>>, load.bad, load.moved)
        /\ UNCHANGED <<now, extractVars>>

\* len(dataset)
Length(o) ==
    /\ manifest[o].st # "new"
    /\ LET r == len_call(o)
       IN  /\ cache' = r.cache
           /\ result' = Result("len", o, 0, r.err, r.val, <<>>, <<>>, FALSE, FALSE)
    /\ UNCHANGED <<now, manifest, dropped, extractVars>>

\* dataset.get_tar_for_index(idx)
Locate(o, idx) ==
    /\ manifest[o].st = "set"
    /\ LET r == get_tar_for_index(manifest[o].files, idx)
       IN  result' = Result("locate", o, idx, r.err, r.off, r.tar, <<>>, FALSE, FALSE)
    /\ UNCHANGED <<now, manifest, cache, dropped, extractVars>>

\* dataset[idx]
GetItem(o, idx) ==
    /\ manifest[o].st # "new"
    /\ LET r == getitem(o, idx)
       IN  /\ cache' = r.cache
           /\ result' = Result("getitem", o, idx, r.err, r.off, r.tar, r.name, FALSE, FALSE)
    /\ UNCHANGED <<now, manifest, dropped, extractVars>>

\* the calendar year advances
NewYear ==
    /\ now + 1 \in Years
    /\ now' = now + 1
    /\ UNCHANGED <<datasetVars, extractVars>>

\* the indices a caller asks for: the valid ones and two past either end
Indices(o) == (0 - Total(o) - 2) .. (Total(o) + 1)

NoResult == Result("none", "d1", 0, "none", 0, <<>>, <<>>, FALSE, FALSE)

ExtractIdle ==
    /\ listing = <<>> /\ pc = "idle" /\ order = <<>> /\ ti = 0 /\ members = <<>>
    /\ mi = 0 /\ inner = <<>> /\ ii = 0 /\ key = 0 /\ out = <<>> /\ visited = <<>>

Init ==
    /\ now = FirstYear
    /\ manifest = [o \in Objects |-> [st |-> "new", files |-> <<>>]]
    /\ cache = [o \in Objects |-> NoEntry]
    /\ result = NoResult
    /\ dropped = [o \in Objects |-> -1]
    /\ ExtractIdle

Next ==
    \/ \E o \in Objects : \E load \in Loads[now] : Construct(o, load)
    \/ \E o \in Objects : Length(o)
    \/ \E o \in Objects : \E idx \in Indices(o) : Locate(o, idx)
    \/ \E o \in Objects : \E idx \in Indices(o) : GetItem(o, idx)
    \/ NewYear

Spec == Init /\ [][Next]_vars

(***************************************************************************)
(* Properties of the dataset object.                                       *)
(***************************************************************************)
Files(o) == manifest[o].files

\* the number of items in the descriptors before the k-th
CumulativeBefore(files, k) == NumItems(SubSeq(files, 1, k - 1))

InRangeOf(files, k, i) ==
    /\ CumulativeBefore(files, k) <= i
    /\ i < CumulativeBefore(files, k) + files[k].num_items

Owners(files, i) == {k \in 1..Len(files) : InRangeOf(files, k, i)}

\* C1: for a global index i with 0 <= i < totalCount, get_tar_for_index(i)
\* returns the filename of the first descriptor whose cumulative range
\* contains i and the offset i - cumulativeBefore, which lies within that
\* descriptor's num_items; and the cumulative ranges partition
\* [0, totalCount): every index has exactly one owner.
C1_LocateFindsOwner ==
    (result.op = "locate" /\ 0 <= result.idx /\ result.idx < Total(result.obj)) =>
        LET files == Files(result.obj)
            own   == Owners(files, result.idx)
        IN  /\ result.err = "none"
            /\ \A i \in 0..(Total(result.obj) - 1) : Cardinality(Owners(files, i)) = 1
            /\ \E k \in own :
                /\ \A j \in own : k <= j
                /\ result.tar = files[k].filename
                /\ result.val = result.idx - CumulativeBefore(files, k)
                /\ 0 <= result.val /\ result.val < files[k].num_items

\* a lookup past a zero-item descriptor, into a later archive at a positive offset
C1_Witness ==
    /\ result.op = "locate" /\ result.err = "none" /\ result.val > 0
    /\ \E k \in 2..Len(Files(result.obj)) :
        /\ Files(result.obj)[k].filename = result.tar
        /\ \E j \in 1..(k - 1) : Files(result.obj)[j].num_items = 0

\* C2: on a corpus of total count N, dataset[idx] raises the out-of-range
\* error, and returns no value, for every idx >= N and every idx < -N.
C2_OutOfRangeRaises ==
    (/\ result.op = "getitem"
     /\ manifest[result.obj].st = "set"
     /\ (result.idx >= Total(result.obj) \/ result.idx < 0 - Total(result.obj)))
    => result.err = "IndexError"

\* C3: every len() that returns, returns the sum of num_items over the
\* descriptor list the object holds now, and a memoized count is always
\* that sum: no count from a replaced list is ever served.
C3_LenIsCurrentSum ==
    /\ (result.op = "len" /\ result.err = "none") =>
            /\ manifest[result.obj].st = "set"
            /\ result.val = NumItems(Files(result.obj))
    /\ \A o \in Objects : cache[o].hit =>
            /\ manifest[o].st = "set"
            /\ cache[o].val = NumItems(Files(o))

\* len() answered after a reload that discarded a different memoized count
C3_Witness ==
    /\ result.op = "len" /\ result.err = "none"
    /\ dropped[result.obj] >= 0
    /\ dropped[result.obj] # result.val

\* C4: constructing the dataset from a manifest that is not well-formed, or
\* has an entry lacking a field or with a non-numeric field, raises to the
\* caller.
C4_ParseFailureSurfaces ==
    (result.op = "init" /\ result.bad) => result.err # "none"

\* C5: with total count N >= 1 and -N <= idx < 0, dataset[idx] resolves to
\* the same archive and offset, and returns the same name (or raises the
\* same error), as dataset[N + idx].
C5_NegativeIndexNormalized ==
    (/\ result.op = "getitem"
     /\ manifest[result.obj].st = "set"
     /\ result.idx < 0
     /\ 0 - Total(result.obj) <= result.idx)
    => LET r == getitem(result.obj, Total(result.obj) + result.idx)
       IN  /\ result.err = r.err
           /\ result.tar = r.tar
           /\ result.val = r.off
           /\ result.name = r.name

\* dataset[-1] returned the name of the last item of a corpus of several archives
C5_Witness ==
    /\ result.op = "getitem" /\ result.err = "none" /\ result.idx = -1
    /\ Len(Files(result.obj)) >= 2
    /\ result.tar = Files(result.obj)[Len(Files(result.obj))].filename
    /\ result.name # <<>>

\* the pivot rule on the numeric value yy of the two-digit fragment
YearOf(yy, yr) == IF yy <= yr - 2000 THEN 2000 + yy ELSE 1900 + yy

ChronoKey(files) == [d \in Range(files) |-> <<d.year, d.month, d.seq_num>>]

\* C6: the list parse_manifest_xml returns is in non-decreasing
\* (year, month, seq_num) order whatever the order of the text, sorting it
\* again leaves it unchanged, and year is 2000+yy if yy <= currentYear-2000
\* and 1900+yy otherwise, for the year current when the text was parsed.
C6_ManifestSorted ==
    \A o \in Objects : manifest[o].st = "set" =>
        /\ IsSortedBy(Files(o), ChronoKey(Files(o)))
        /\ Sorted(Files(o), ChronoKey(Files(o))) = Files(o)
        /\ (result.op = "init" /\ result.obj = o /\ ~result.bad) =>
                \A d \in Range(Files(o)) :
                    d.year = YearOf(IntOf(SubSeq(d.yymm, 1, 2)), result.val)

\* a manifest whose text was out of order, holding archives of both centuries
C6_Witness ==
    /\ result.op = "init" /\ result.moved
    /\ \E d, e \in Range(Files(result.obj)) : d.year < 2000 /\ e.year >= 2000

(***************************************************************************)
(* ArXiv_dataset.py: sort_by_date.                                         *)
(***************************************************************************)
\* two-digit years below this are taken to be in the 2000s
FixedPivot == 90

\* pattern.match(filename) for arXiv_src_(\d{2})(\d{2})_(\d{3})\.tar, which
\* matches at the start of the name and allows anything after it
Matches(name) ==
    /\ Len(name) >= 22
    /\ SubSeq(name, 1, 10) = ArchivePrefix
    /\ IsNumeric(SubSeq(name, 11, 14))
    /\ name[15] = "_"
    /\ IsNumeric(SubSeq(name, 16, 18))
    /\ SubSeq(name, 19, 22) = DotTar

get_date(name) ==
    IF ~Matches(name) THEN <<0, 0, 0>>
    ELSE LET year == IntOf(SubSeq(name, 11, 12))
         IN  << IF year < FixedPivot THEN year + 2000 ELSE year + 1900,
                IntOf(SubSeq(name, 13, 14)),
                IntOf(SubSeq(name, 16, 18)) >>

DateKey(names) == [n \in Range(names) |-> get_date(n)]

sort_by_date(names) == Sorted(names, DateKey(names))

(***************************************************************************)
(* ArXiv_dataset.py: the generator _generate_examples(filepath).           *)
(***************************************************************************)
\* a plausible slip: the sorted list taken as it is
Ascending(names) == sort_by_date(names)

\* reversed(sort_by_date(os.listdir(filepath)))
VisitOrder(names) == Reversed(sort_by_date(names))

\* a plausible slip: the key is not advanced after a yield
SameKey(k) == k

\* key += 1
NextKey(k) == k + 1

\* f.name.endswith('.gz')
GzSuffixes == {DotGz}

\* the sorted .gz member names of a top-level archive
GzNames(tar) ==
    LET names == SelectNames(Disk[tar].entries, GzSuffixes) IN Sorted(names, NameKey(names))

GzNamesOf == [tar \in DirEntries |-> GzNames(tar)]

\* not tar.endswith(".tar") or tar.startswith(".")
Skipped(tar) == ~EndsWith(tar, DotTar) \/ StartsWith(tar, <<".">>)

\* inner_member.isfile() and inner_member.name == 'main.tex'
IsMainTex(m) == m.isfile /\ m.name = MainTex

CurrentTar == order[ti]
CurrentEntry == EntryByName(CurrentTar, members[mi])

\* the generator is called: key = 0, and the for loop takes its iterable
Start ==
    /\ pc = "start"
    /\ order' = VisitOrder(listing)
    /\ key' = 0
    /\ ti' = 1
    /\ pc' = "tars"
    /\ UNCHANGED <<now, datasetVars, listing, members, mi, inner, ii, out, visited>>

\* a directory entry that is not a .tar file, or is hidden, is passed over
SkipFile ==
    /\ pc = "tars" /\ ti <= Len(order)
    /\ Skipped(CurrentTar)
    /\ ti' = ti + 1
    /\ UNCHANGED <<now, datasetVars, listing, pc, order, members, mi, inner, ii, key, out,
                   visited>>

\* tarfile.open of the top-level archive, and the sorted list of its .gz members
OpenTar ==
    /\ pc = "tars" /\ ti <= Len(order)
    /\ ~Skipped(CurrentTar)
    /\ Disk[CurrentTar].istar
    /\ members' = GzNamesOf[CurrentTar]
    /\ mi' = 1
    /\ visited' = Append(visited, CurrentTar)
    /\ pc' = "members"
    /\ UNCHANGED <<now, datasetVars, listing, order, ti, inner, ii, key, out>>

\* tarfile.open of the top-level archive raises; nothing in the generator catches it
OpenTarRaises ==
    /\ pc = "tars" /\ ti <= Len(order)
    /\ ~Skipped(CurrentTar)
    /\ ~Disk[CurrentTar].istar
    /\ pc' = "raised_outer"
    /\ UNCHANGED <<now, datasetVars, listing, order, ti, members, mi, inner, ii, key, out,
                   visited>>

\* outer_tar.extractfile(member).read() raises: it stands before the try block
ReadRaises ==
    /\ pc = "members" /\ mi <= Len(members)
    /\ ~CurrentEntry.readable
    /\ pc' = "raised_inner"
    /\ UNCHANGED <<now, datasetVars, listing, order, ti, members, mi, inner, ii, key, out,
                   visited>>

\* the bytes are no gzip-compressed archive: tarfile.open raises inside the
\* try block, the error is logged and the loop goes on to the next member
OpenInnerFails ==
    /\ pc = "members" /\ mi <= Len(members)
    /\ CurrentEntry.readable /\ ~CurrentEntry.valid
    /\ mi' = mi + 1
    /\ UNCHANGED <<now, datasetVars, listing, pc, order, ti, members, inner, ii, key, out,
                   visited>>

\* the nested archive opens; inner_tar.getmembers()
OpenInner ==
    /\ pc = "members" /\ mi <= Len(members)
    /\ CurrentEntry.readable /\ CurrentEntry.valid
    /\ inner' = CurrentEntry.content
    /\ ii' = 1
    /\ pc' = "inner"
    /\ UNCHANGED <<now, datasetVars, listing, order, ti, members, mi, key, out, visited>>

\* a nested member that is not a regular file named main.tex
PassMember ==
    /\ pc = "inner" /\ ii <= Len(inner)
    /\ ~IsMainTex(inner[ii])
    /\ ii' = ii + 1
    /\ UNCHANGED <<now, datasetVars, listing, pc, order, ti, members, mi, inner, key, out,
                   visited>>

\* main.tex decodes: the record is yielded under key, and key advances
YieldRecord ==
    /\ pc = "inner" /\ ii <= Len(inner)
    /\ IsMainTex(inner[ii]) /\ inner[ii].utf8
    /\ out' = Append(out, [key |-> key,
                           id |-> SubSeq(inner[ii].name, 1, Len(inner[ii].name) - 3),
                           tar |-> CurrentTar,
                           entry |-> members[mi]])
    /\ key' = NextKey(key)
    /\ ii' = ii + 1
    /\ UNCHANGED <<now, datasetVars, listing, pc, order, ti, members, mi, inner, visited>>

\* main.tex does not decode as UTF-8: the error leaves the with block, is
\* logged, and the loop goes on to the next member of the top-level archive
DecodeFails ==
    /\ pc = "inner" /\ ii <= Len(inner)
    /\ IsMainTex(inner[ii]) /\ ~inner[ii].utf8
    /\ inner' = <<>>
    /\ ii' = 0
    /\ mi' = mi + 1
    /\ pc' = "members"
    /\ UNCHANGED <<now, datasetVars, listing, order, ti, members, key, out, visited>>

\* the nested archive is exhausted
CloseInner ==
    /\ pc = "inner" /\ ii > Len(inner)
    /\ inner' = <<>>
    /\ ii' = 0
    /\ mi' = mi + 1
    /\ pc' = "members"
    /\ UNCHANGED <<now, datasetVars, listing, order, ti, members, key, out, visited>>

\* the top-level archive is exhausted
CloseTar ==
    /\ pc = "members" /\ mi > Len(members)
    /\ members' = <<>>
    /\ mi' = 0
    /\ ti' = ti + 1
    /\ pc' = "tars"
    /\ UNCHANGED <<now, datasetVars, listing, order, inner, ii, key, out, visited>>

\* the for loop over the directory ends and the generator returns
Finish ==
    /\ pc = "tars" /\ ti > Len(order)
    /\ pc' = "done"
    /\ UNCHANGED <<now, datasetVars, listing, order, ti, members, mi, inner, ii, key, out,
                   visited>>

Listings == DistinctSeqs(DirEntries, MaxListing)

InitExtract ==
    /\ now \in Years
    /\ manifest = [o \in Objects |-> [st |-> "new", files |-> <<>>]]
    /\ cache = [o \in Objects |-> NoEntry]
    /\ result = NoResult
    /\ dropped = [o \in Objects |-> -1]
    /\ listing \in Listings
    /\ pc = "start" /\ order = <<>> /\ ti = 0 /\ members = <<>>
    /\ mi = 0 /\ inner = <<>> /\ ii = 0 /\ key = 0 /\ out = <<>> /\ visited = <<>>

NextExtract ==
    \/ Start
    \/ SkipFile
    \/ OpenTar
    \/ OpenTarRaises
    \/ ReadRaises
    \/ OpenInnerFails
    \/ OpenInner
    \/ PassMember
    \/ YieldRecord
    \/ DecodeFails
    \/ CloseInner
    \/ CloseTar
    \/ Finish

SpecExtract == InitExtract /\ [][NextExtract]_vars

(***************************************************************************)
(* Properties of the generator.                                            *)
(***************************************************************************)
\* the main.tex members of one inner entry that are regular files and decode
ValidMains(e) ==
    IF e.readable /\ e.valid
    THEN Cardinality({i \in 1..Len(e.content) : IsMainTex(e.content[i]) /\ e.content[i].utf8})
    ELSE 0

\* the valid main.tex occurrences in the .gz entries of the archives tars
ValidMainCount(tars) ==
    SumSeq([t \in 1..Len(tars) |->
        SumSeq([m \in 1..Len(GzNamesOf[tars[t]]) |->
            ValidMains(EntryByName(tars[t], GzNamesOf[tars[t]][m]))])])

\* C7: an inner entry that cannot be read, is no valid nested archive, or
\* holds an undecodable main.tex never ends the generator, and a finished
\* run has yielded as many records as there are valid main.tex occurrences.
C7_BadEntryNeverAborts ==
    /\ pc # "raised_inner"
    /\ pc = "done" => Len(out) = ValidMainCount(visited)

\* C8 as written: records of an earlier archive are yielded before records
\* of a later one, the archives being visited in ascending order.
C8_AscendingVisit ==
    /\ \A i, j \in 1..Len(out) :
            i < j => TupleLeq(get_date(out[i].tar), get_date(out[j].tar))
    /\ \A i, j \in 1..Len(visited) :
            i < j => TupleLeq(get_date(visited[i]), get_date(visited[j]))

\* C8 as amended: the archives are always visited in descending order of
\* sort_by_date's key, so records of a later archive are yielded before
\* records of an earlier one.
C8_DescendingVisit ==
    /\ \A i, j \in 1..Len(out) :
            i < j => TupleLeq(get_date(out[j].tar), get_date(out[i].tar))
    /\ \A i, j \in 1..Len(visited) :
            i < j => TupleLeq(get_date(visited[j]), get_date(visited[i]))
    /\ pc # "start" => order = Reversed(Sorted(listing, DateKey(listing)))

\* a finished run over a listing that named the older archive last but one
\* and yielded records of two archives, the later archive's first
C8_Witness ==
    /\ pc = "done"
    /\ \E i, j \in 1..Len(out) :
            i < j /\ TupleLess(get_date(out[j].tar), get_date(out[i].tar))
    /\ \E a, b \in 1..Len(listing) :
            a < b /\ TupleLess(get_date(listing[a]), get_date(listing[b]))

\* C9: for every archive name arXiv_src_YYMM_NNN.tar the generator orders,
\* the year sort_by_date derives from YY is the year parse_manifest_xml
\* derives from yymm = YYMM in the current calendar year.
C9_SameYearDerivation ==
    \A i \in 1..Len(order) :
        Matches(order[i]) =>
            get_date(order[i])[1] = PivotYear(SubSeq(order[i], 11, 12), now)

\* C10: the n-th record yielded carries key n, counting from 0, and key is
\* the number of records yielded so far.
C10_KeysCountRecords ==
    /\ \A n \in 1..Len(out) : out[n].key = n - 1
    /\ pc # "start" => key = Len(out)

\* a record yielded after an undecodable main.tex and a corrupt inner entry
\* had been skipped, under a key that is not the first
C10_Witness ==
    \E n \in 2..Len(out) :
        /\ out[n].tar = T2301a
        /\ out[n - 1].tar = T5002
        /\ out[n].key = n - 1

====
